---- MODULE Spec2Model ----
(***************************************************************************)
(* whatsup (src/sup.go): one run of Sup.  The main goroutine checks the    *)
(* OS, fans out one goroutine per endpoint, joins on a WaitGroup, closes   *)
(* and drains the result channel, summarises, prints and posts the summary *)
(* to a Teams webhook.                                                     *)
(*                                                                         *)
(* src/sup.go holds two builds of the package:                             *)
(*   build "https"  : lines 1-285   (Config.Https selects the HTTP probe)  *)
(*   build "osPing" : lines 287-551 with httpPing/checkLink of 604-650     *)
(*                    (Config.OSPing selects the native ping probe)        *)
(* Strings are TLC strings, handled character by character (Len, SubSeq,   *)
(* \o), so formatting and substring search are computed, not assumed.      *)
(***************************************************************************)
EXTENDS Integers, Sequences, FiniteSets, TLC

VARIABLES
    build,        \* which build of the package runs: "https" or "osPing"
    goos,         \* runtime.GOOS
    cfg,          \* the Config handed to Sup
    pc,           \* position of the main goroutine inside Sup
    os,           \* the value checkOS returned
    launched,     \* number of iterations of the launch loop done so far
    wg,           \* the WaitGroup counter
    chCap,        \* capacity of resultChannel
    ch,           \* buffered contents of resultChannel
    chClosed,     \* resultChannel has been closed
    chanLog,      \* history: every value written to resultChannel, in order
    env,          \* what http.Get and ping can return during this run
    task,         \* per-endpoint goroutine: position, loop state, probe I/O
    panicked,     \* a goroutine panicked (send on a closed channel)
    results,      \* the slice built by the drain loop of checkEndpoints
    checkSummary, \* the CheckSummary returned by checkAndSummarizeEndpoints
    stdout,       \* lines Sup printed with fmt.Println
    posts,        \* requests handed to client.Do, each with what Do returned
    retErr        \* the error Sup returned

vars == <<build, goos, cfg, env, pc, os, launched, wg, chCap, ch, chClosed,
          chanLog, task, panicked, results, checkSummary, stdout, posts, retErr>>

----------------------------------------------------------------------------
(* Bounds of the model *)

MaxEndpoints == 2   \* longest endpoint list of a whole run (Spec)
MaxRunTries == 1    \* largest Config.Tries of a whole run (Spec)
MaxTries == 3       \* largest Config.Tries of a single-endpoint run (SpecProbe)

----------------------------------------------------------------------------
(* Strings and formatting *)

Digit(d) == SubSeq("0123456789", d + 1, d + 1)

RECURSIVE Itoa(_)
Itoa(n) == IF n < 10 THEN Digit(n) ELSE Itoa(n \div 10) \o Digit(n % 10)

Contains(s, sub) ==
    \E i \in 0..(Len(s) - Len(sub)) : SubSeq(s, i + 1, i + Len(sub)) = sub

HasPrefix(s, p) == Len(p) <= Len(s) /\ SubSeq(s, 1, Len(p)) = p

(* Go errors: nil, or an error value with its Error() text *)
Nil == [isNil |-> TRUE, msg |-> ""]
Errorf(m) == [isNil |-> FALSE, msg |-> m]

(* fmt's %s / %v verb applied to an error value *)
FmtErr(e) == IF e.isNil THEN "%!s(<nil>)" ELSE e.msg

CheckResult(endpoint, err, up) == [Endpoint |-> endpoint, Err |-> err, Up |-> up]

----------------------------------------------------------------------------
(* Configuration and environment the model draws from *)

Builds == {"https", "osPing"}
GOOS == {"darwin", "linux", "windows", "freebsd"}
EndpointNames == {"a.test", "b.test"}

RECURSIVE SeqsUpTo(_, _)
SeqsUpTo(S, n) ==
    IF n = 0 THEN {<< >>}
    ELSE LET shorter == SeqsUpTo(S, n - 1)
         IN  shorter \cup {Append(q, x) : q \in {r \in shorter : Len(r) = n - 1}, x \in S}

(* webhook URL pairs (success, failure): a well-formed pair, and a pair
   that net/url cannot parse *)
UrlPairs ==
    {<<"https://hooks.test/up", "https://hooks.test/down">>,
     <<":no-scheme/up", ":no-scheme/down">>}

Configs(endpointLists, maxTries) ==
    {[TeamsWebhookUrlSuccess |-> u[1], TeamsWebhookUrlFailure |-> u[2],
      Endpoints |-> e, Tries |-> n, Flag |-> f] :
        u \in UrlPairs, e \in endpointLists, n \in 0..maxTries, f \in BOOLEAN}

(* The code only copies and prints endpoint names, so endpoint lists are
   taken up to renaming: a non-empty list starts with "a.test". *)
EndpointLists ==
    {l \in SeqsUpTo(EndpointNames, MaxEndpoints) : l = << >> \/ l[1] = "a.test"}

(* whole runs: every endpoint list up to MaxEndpoints, few tries *)
RunConfigs == Configs(EndpointLists, MaxRunTries)

(* whole runs whose webhook URLs are well formed: checkEndpoints never
   reads the URLs *)
FairConfigs == {c \in RunConfigs : c.TeamsWebhookUrlSuccess = "https://hooks.test/up"}

(* single-endpoint runs: one endpoint, every try count up to MaxTries *)
ProbeConfigs == Configs({<<e>> : e \in EndpointNames}, MaxTries)

(* Config.Https (build "https") or Config.OSPing (build "osPing") decides
   the probe: the goroutine runs the HTTP probe or the native ping. *)
UseHttp(b, flag) == IF b = "https" THEN flag ELSE ~flag

----------------------------------------------------------------------------
(* checkOS *)

testedOS == {"darwin", "linux", "windows"}

(* mutant: the error of an untested OS is not returned *)
checkOS_AcceptsAny(g) == [os |-> g, err |-> Nil]

checkOS(g) ==
    IF g \in testedOS
    THEN [os |-> g, err |-> Nil]
    ELSE [os |-> g, err |-> Errorf("untested OS: " \o g)]

----------------------------------------------------------------------------
(* Native ping probe *)

triesArg(o) == IF o = "windows" THEN "-n" ELSE "-c"

PingArgv(endpoint, tries, o) == <<"ping", endpoint, triesArg(o), Itoa(tries)>>

successOutputLinux(tries) ==
    Itoa(tries) \o " packets transmitted, " \o Itoa(tries) \o " received"
successOutputMac(tries) ==
    Itoa(tries) \o " packets transmitted, " \o Itoa(tries) \o " packets received"
successOutputWindows(tries) ==
    "    Packets: Sent = " \o Itoa(tries) \o ", Received = " \o Itoa(tries)

(* mutant: the Linux marker is used on every OS *)
successOutput_LinuxOnly(o, tries) == successOutputLinux(tries)

successOutput(o, tries) ==
    IF o = "windows" THEN successOutputWindows(tries)
    ELSE IF o = "darwin" THEN successOutputMac(tries)
    ELSE successOutputLinux(tries)

(* mutant: the return after the error write is missing, so the function
   falls through to the marker check and writes again *)
checkEndpointPing_NoReturn(endpoint, tries, o, err, output) ==
    (IF ~err.isNil THEN <<CheckResult(endpoint, err, FALSE)>> ELSE << >>)
    \o (IF ~Contains(output, successOutput(o, tries))
        THEN <<CheckResult(endpoint,
                           Errorf(endpoint \o " failed to return all packets"), FALSE)>>
        ELSE <<CheckResult(endpoint, Nil, TRUE)>>)

(* The channel writes checkEndpointPing performs, in order, given what
   exec.Command(...).Output() returned. *)
checkEndpointPing(endpoint, tries, o, err, output) ==
    IF ~err.isNil
    THEN <<CheckResult(endpoint, err, FALSE)>>
    ELSE IF ~Contains(output, successOutput(o, tries))
    THEN <<CheckResult(endpoint,
                       Errorf(endpoint \o " failed to return all packets"), FALSE)>>
    ELSE <<CheckResult(endpoint, Nil, TRUE)>>

(* What the ping binaries print in their statistics line *)
LinuxStats(sent, rcvd) ==
    Itoa(sent) \o " packets transmitted, " \o Itoa(rcvd) \o " received, time 2ms\n"
MacStats(sent, rcvd) ==
    Itoa(sent) \o " packets transmitted, " \o Itoa(rcvd) \o " packets received\n"
WindowsStats(sent, rcvd) ==
    "    Packets: Sent = " \o Itoa(sent) \o ", Received = " \o Itoa(rcvd) \o ",\r\n"

NativeStats(o, sent, rcvd) ==
    IF o = "windows" THEN WindowsStats(sent, rcvd)
    ELSE IF o = "darwin" THEN MacStats(sent, rcvd)
    ELSE LinuxStats(sent, rcvd)

ExitError == Errorf("exit status 1")
LaunchError == Errorf("exec: \"ping\": executable file not found in $PATH")

(* Returns of exec.Command("ping", ...).Output(), stdout and error.
   Every return: the command cannot be launched; or it runs, exits with
   or without an error, and prints nothing or the statistics of any of
   the three ping implementations with 0..tries packets received. *)
AllPingRuns(tries) ==
    {[err |-> LaunchError, output |-> ""]} \cup
    [err : {Nil, ExitError},
     output : {""} \cup UNION {{LinuxStats(tries, r), MacStats(tries, r),
                                WindowsStats(tries, r)} : r \in 0..tries}]

(* The returns of a host whose ping is the native one of GOOS g: launch
   failure, one packet lost, all packets received. *)
NativePingRuns(g, tries) ==
    {[err |-> LaunchError, output |-> ""],
     [err |-> Nil, output |-> NativeStats(g, tries, tries)]} \cup
    {[err |-> Nil, output |-> NativeStats(g, tries, r)] : r \in {tries - 1} \ {-1}}

----------------------------------------------------------------------------
(* HTTP probe *)

StatusOK == 200
StatusForbidden == 403
GetError == Errorf("dial tcp: connection refused")

(* Returns of http.Get: a transport error, or a response with a status *)
AllGetReturns ==
    {[err |-> GetError, StatusCode |-> 0]} \cup
    [err : {Nil}, StatusCode : {StatusOK, StatusForbidden, 500}]

(* A network that either answers 200 or refuses the connection *)
PlainGetReturns ==
    {[err |-> GetError, StatusCode |-> 0], [err |-> Nil, StatusCode |-> StatusOK]}

(* mutant: only 200 counts, 403 does not (checkLink of lines 560-586) *)
AttemptSucceeds_Only200(r) ==
    IF ~r.err.isNil THEN FALSE
    ELSE IF r.StatusCode # StatusOK THEN FALSE
    ELSE TRUE

(* One pass of the attempt loop: does it reach successfulAttempts++ ? *)
AttemptSucceeds(r) ==
    IF ~r.err.isNil THEN FALSE
    ELSE IF r.StatusCode # StatusOK /\ r.StatusCode # StatusForbidden THEN FALSE
    ELSE TRUE

(* mutant: the down result is written without its cause *)
checkEndpointHttps_NilCause(endpoint, tries, successfulAttempts) ==
    IF successfulAttempts # tries
    THEN <<CheckResult(endpoint, Nil, FALSE)>>
    ELSE <<CheckResult(endpoint, Nil, TRUE)>>

(* build "https": the writes checkEndpointHttps performs after its loop *)
checkEndpointHttps(endpoint, tries, successfulAttempts) ==
    IF successfulAttempts # tries
    THEN <<CheckResult(endpoint,
                       Errorf(endpoint \o " was not up for all " \o Itoa(tries)
                              \o " attempts"), FALSE)>>
    ELSE <<CheckResult(endpoint, Nil, TRUE)>>

(* build "osPing": httpPing after checkLink returned successfulAttempts *)
httpPing(endpoint, tries, successfulAttempts) ==
    IF successfulAttempts = tries
    THEN [msg |-> endpoint \o " is up! " \o Itoa(tries)
                    \o " packets transmitted and received",
          err |-> Nil]
    ELSE [msg |-> "",
          err |-> Errorf("endpoint " \o endpoint \o " is down after "
                         \o Itoa(tries) \o " attempts")]

(* build "osPing": the writes checkEndpointHttpPing performs *)
checkEndpointHttpPing(endpoint, tries, successfulAttempts) ==
    LET err == httpPing(endpoint, tries, successfulAttempts).err
    IN  IF ~err.isNil
        THEN <<CheckResult(endpoint, err, FALSE)>>
        ELSE <<CheckResult(endpoint, Nil, TRUE)>>

(* mutant: an endpoint that was never tried is reported down *)
HttpWrites_UntriedIsDown(b, endpoint, tries, successfulAttempts) ==
    IF tries = 0
    THEN <<CheckResult(endpoint, Errorf(endpoint \o " was not tried"), FALSE)>>
    ELSE IF b = "https"
    THEN checkEndpointHttps(endpoint, tries, successfulAttempts)
    ELSE checkEndpointHttpPing(endpoint, tries, successfulAttempts)

(* The writes of the HTTP probe of the running build *)
HttpWrites(b, endpoint, tries, successfulAttempts) ==
    IF b = "https"
    THEN checkEndpointHttps(endpoint, tries, successfulAttempts)
    ELSE checkEndpointHttpPing(endpoint, tries, successfulAttempts)


----------------------------------------------------------------------------
(* Summarizer *)

(* mutant: the filter keeps the up results (the negation is missing) *)
filterDownEndpoints_KeepsUp(rs) ==
    LET downEndpoints == SelectSeq(rs, LAMBDA r : r.Up)
        numDown == Len(downEndpoints)
    IN  IF numDown = 0
        THEN [down |-> << >>, err |-> Nil]
        ELSE [down |-> downEndpoints,
              err |-> Errorf(Itoa(numDown) \o " endpoints are down")]

filterDownEndpoints(rs) ==
    LET downEndpoints == SelectSeq(rs, LAMBDA r : ~r.Up)
        numDown == Len(downEndpoints)
    IN  IF numDown = 0
        THEN [down |-> << >>, err |-> Nil]
        ELSE [down |-> downEndpoints,
              err |-> Errorf(Itoa(numDown) \o " endpoints are down")]

(* build "https": the checkMethod variable *)
checkMethod(https) == IF https THEN "ping" ELSE "HTTPS GET"

(* build "osPing": the osUsed closure *)
osUsed(osPing) ==
    IF osPing THEN "Results were checked using OS Ping"
    ELSE "Results were checked using Go HTTP requests"

AllUpMsg(b, flag, n) ==
    IF b = "https"
    THEN "All " \o Itoa(n) \o " endpoints are up, and were checked using "
         \o checkMethod(flag) \o "."
    ELSE "All " \o Itoa(n) \o " endpoints are up. " \o osUsed(flag)

DownLine(d) ==
    "Endpoint: " \o d.Endpoint \o " | Error: " \o FmtErr(d.Err) \o " \n\n"

(* mutant: each line overwrites the message instead of being appended *)
DownLines_Overwrite(ds) ==
    IF ds = << >> THEN "" ELSE DownLine(ds[Len(ds)])

(* mutant: each line is put in front of the lines before it *)
RECURSIVE DownLines_Reversed(_)
DownLines_Reversed(ds) ==
    IF ds = << >> THEN "" ELSE DownLines_Reversed(Tail(ds)) \o DownLine(Head(ds))

RECURSIVE DownLines(_)
DownLines(ds) ==
    IF ds = << >> THEN "" ELSE DownLine(Head(ds)) \o DownLines(Tail(ds))

DownMsg(downResults) ==
    "**" \o Itoa(Len(downResults)) \o " endpoints are down!**\n\n\n\n"
    \o DownLines(downResults)

(* mutant: an empty result slice is treated as a failure *)
Summarize_EmptyIsDown(b, flag, rs) ==
    LET f == filterDownEndpoints(rs)
    IN  IF f.err.isNil /\ Len(rs) > 0
        THEN [AllUp |-> TRUE, Msg |-> AllUpMsg(b, flag, Len(rs))]
        ELSE [AllUp |-> FALSE, Msg |-> DownMsg(f.down)]

(* checkAndSummarizeEndpoints after checkEndpoints returned rs *)
Summarize(b, flag, rs) ==
    LET f == filterDownEndpoints(rs)
    IN  IF f.err.isNil
        THEN [AllUp |-> TRUE, Msg |-> AllUpMsg(b, flag, Len(rs))]
        ELSE [AllUp |-> FALSE, Msg |-> DownMsg(f.down)]

----------------------------------------------------------------------------
(* Webhook notification *)

(* the titles are written without their leading emoji *)
ColorUp == "#0ac404"
TitleUp == "Endpoints Up"
ColorDown == "#e81515"
TitleDown == "ENDPOINTS DOWN"

Card(cs) ==
    LET color == IF cs.AllUp THEN ColorUp ELSE ColorDown
        title == IF cs.AllUp THEN TitleUp ELSE TitleDown
    IN  [type |-> "MessageCard", context |-> "http://schema.org/extensions",
         summary |-> title, themeColor |-> color, title |-> title, text |-> cs.Msg]

(* mutant: the two webhook URLs are swapped *)
WebhookUrl_Swapped(webhookUrlSuccess, webhookUrlFailure, cs) ==
    IF cs.AllUp THEN webhookUrlFailure ELSE webhookUrlSuccess

(* the url variable of sendSummaryMessageToTeams *)
WebhookUrl(webhookUrlSuccess, webhookUrlFailure, cs) ==
    IF cs.AllUp THEN webhookUrlSuccess ELSE webhookUrlFailure

(* http.NewRequest parses the URL; net/url rejects a URL whose first
   character is a colon ("missing protocol scheme"). *)
NewRequestErr(url) ==
    IF Len(url) > 0 /\ SubSeq(url, 1, 1) = ":"
    THEN Errorf("parse \"" \o url \o "\": missing protocol scheme")
    ELSE Nil

DoError == Errorf("Post: connection refused")

(* Returns of client.Do: a transport error, or a response with a status *)
DoReturns ==
    {[err |-> DoError, StatusCode |-> 0]} \cup
    [err : {Nil}, StatusCode : {StatusOK, 201, 500}]

(* sendSummaryMessageToTeams: the requests it hands to client.Do and the
   error it returns, given what client.Do returns. *)
sendSummaryMessageToTeams(webhookUrlSuccess, webhookUrlFailure, cs, do) ==
    LET url == WebhookUrl(webhookUrlSuccess, webhookUrlFailure, cs)
        req == [method |-> "POST", url |-> url, body |-> Card(cs)]
    IN  IF ~NewRequestErr(url).isNil
        THEN [requests |-> << >>, err |-> NewRequestErr(url)]
        ELSE IF ~do.err.isNil
        THEN [requests |-> <<req>>, err |-> do.err]
        ELSE IF do.StatusCode # StatusOK
        THEN [requests |-> <<req>>,
              err |-> Errorf("failed to send message with status code: "
                             \o Itoa(do.StatusCode))]
        ELSE [requests |-> <<req>>, err |-> Nil]

(* mutant: Sup drops the delivery error *)
SupSendErr_Dropped(err) == Nil

(* Sup wraps a delivery error *)
SupSendErr(err) ==
    IF ~err.isNil THEN Errorf("error sending message: " \o FmtErr(err)) ELSE Nil

----------------------------------------------------------------------------
(* State machine *)

NumEndpoints == Len(cfg.Endpoints)
Tasks == 1..NumEndpoints

(* mutant: the goroutine reads the loop variable, which by then holds the
   last endpoint *)
TaskEndpoint_LoopVariable(endpoints, t) == endpoints[Len(endpoints)]

(* mutant: every goroutine is handed the first endpoint *)
TaskEndpoint_First(endpoints, t) == endpoints[1]

(* the ept argument of the goroutine launched in iteration t *)
TaskEndpoint(endpoints, t) == endpoints[t]

(* mutant: the channel is made without a buffer *)
ChannelCapacity_Unbuffered(endpoints) == 0

(* mutant: the buffer is one slot short *)
ChannelCapacity_OneShort(endpoints) == Len(endpoints) - 1

(* resultChannel := make(chan CheckResult, len(endpoints)) *)
ChannelCapacity(endpoints) == Len(endpoints)

(* mutant: the join is missing *)
WaitReturns_NoJoin(counter) == TRUE

(* wg.Wait() returns when the counter is zero *)
WaitReturns(counter) == counter = 0

IdleTask ==
    [pc |-> "idle", i |-> 0, successfulAttempts |-> 0, gets |-> << >>,
     execs |-> << >>, pending |-> << >>, written |-> << >>]

NoSummary == [AllUp |-> FALSE, Msg |-> ""]
NotReturned == [isNil |-> FALSE, msg |-> "<Sup has not returned>"]

InitWith(configs) ==
    /\ build \in Builds
    /\ goos \in GOOS
    /\ cfg \in configs
    /\ pc = "checkOS"
    /\ os = ""
    /\ launched = 0
    /\ wg = 0
    /\ chCap = 0
    /\ ch = << >>
    /\ chClosed = FALSE
    /\ chanLog = << >>
    /\ task = [t \in 1..Len(cfg.Endpoints) |-> IdleTask]
    /\ panicked = FALSE
    /\ results = << >>
    /\ checkSummary = NoSummary
    /\ stdout = << >>
    /\ posts = << >>
    /\ retErr = NotReturned

(* whole runs, on a host with its native ping and a plain network *)
Init ==
    /\ InitWith(RunConfigs)
    /\ env = [gets |-> PlainGetReturns, pings |-> NativePingRuns(goos, cfg.Tries)]

(* single-endpoint runs, with every return the model knows *)
InitProbe ==
    /\ InitWith(ProbeConfigs)
    /\ env = [gets |-> AllGetReturns, pings |-> AllPingRuns(cfg.Tries)]

(* whole runs observed under fair scheduling *)
InitFair ==
    /\ InitWith(FairConfigs)
    /\ env = [gets |-> PlainGetReturns, pings |-> NativePingRuns(goos, cfg.Tries)]

(* mutant: the summary is not printed *)
Println_Missing(out, line) == out

(* fmt.Println appends one line to the standard output.  The per-attempt
   fmt.Printf lines of checkLink (build "osPing") are not recorded. *)
Println(out, line) == Append(out, line)

(* Sup: os, err := checkOS(); if err != nil { return err } *)
SupCheckOS ==
    /\ pc = "checkOS"
    /\ ~panicked
    /\ os' = checkOS(goos).os
    /\ IF ~checkOS(goos).err.isNil
       THEN /\ retErr' = checkOS(goos).err
            /\ pc' = "returned"
       ELSE /\ retErr' = retErr
            /\ pc' = "make"
    /\ UNCHANGED <<chanLog, build, goos, cfg, env, launched, wg, chCap, ch, chClosed, task,
                   panicked, results, checkSummary, stdout, posts>>

(* checkEndpoints: var wg; resultChannel := make(chan CheckResult, len(endpoints)) *)
MakeChannel ==
    /\ pc = "make"
    /\ ~panicked
    /\ wg' = 0
    /\ chCap' = ChannelCapacity(cfg.Endpoints)
    /\ ch' = << >>
    /\ chClosed' = FALSE
    /\ pc' = "launch"
    /\ UNCHANGED <<chanLog, build, goos, cfg, env, os, launched, task, panicked, results,
                   checkSummary, stdout, posts, retErr>>

(* one iteration of the launch loop: wg.Add(1); go checkEndpoint(ept, ...) *)
Launch ==
    /\ pc = "launch"
    /\ ~panicked
    /\ launched < NumEndpoints
    /\ wg' = wg + 1
    /\ launched' = launched + 1
    /\ task' = [task EXCEPT ![launched + 1].pc = "probe"]
    /\ UNCHANGED <<chanLog, build, goos, cfg, env, pc, os, chCap, ch, chClosed, panicked,
                   results, checkSummary, stdout, posts, retErr>>

(* the launch loop ends; wg.Wait() returns once the counter is zero *)
Wait ==
    /\ pc = "launch"
    /\ ~panicked
    /\ launched = NumEndpoints
    /\ WaitReturns(wg)
    /\ pc' = "close"
    /\ UNCHANGED <<chanLog, build, goos, cfg, env, os, launched, wg, chCap, ch, chClosed,
                   task, panicked, results, checkSummary, stdout, posts, retErr>>

(* close(resultChannel) *)
Close ==
    /\ pc = "close"
    /\ ~panicked
    /\ chClosed' = TRUE
    /\ pc' = "drain"
    /\ UNCHANGED <<chanLog, build, goos, cfg, env, os, launched, wg, chCap, ch, task,
                   panicked, results, checkSummary, stdout, posts, retErr>>

(* mutant: the received result is put in front *)
AppendResult_Prepend(rs, r) == <<r>> \o rs

(* results = append(results, r) *)
AppendResult(rs, r) == Append(rs, r)

(* for r := range resultChannel { results = append(results, r) } *)
Receive ==
    /\ pc = "drain"
    /\ ~panicked
    /\ Len(ch) > 0
    /\ results' = AppendResult(results, Head(ch))
    /\ ch' = Tail(ch)
    /\ UNCHANGED <<chanLog, build, goos, cfg, env, pc, os, launched, wg, chCap, chClosed,
                   task, panicked, checkSummary, stdout, posts, retErr>>

(* the range loop ends on a closed, empty channel; checkEndpoints returns
   and checkAndSummarizeEndpoints builds the summary *)
SummarizeResults ==
    /\ pc = "drain"
    /\ ~panicked
    /\ Len(ch) = 0
    /\ chClosed
    /\ checkSummary' = Summarize(build, cfg.Flag, results)
    /\ pc' = "print"
    /\ UNCHANGED <<chanLog, build, goos, cfg, env, os, launched, wg, chCap, ch, chClosed,
                   task, panicked, results, stdout, posts, retErr>>

(* fmt.Println(checkSummary.Msg) *)
PrintSummary ==
    /\ pc = "print"
    /\ ~panicked
    /\ stdout' = Println(stdout, checkSummary.Msg)
    /\ pc' = "send"
    /\ UNCHANGED <<chanLog, build, goos, cfg, env, os, launched, wg, chCap, ch, chClosed,
                   task, panicked, results, checkSummary, posts, retErr>>

(* err = sendSummaryMessageToTeams(...); Sup returns *)
SendSummary ==
    /\ pc = "send"
    /\ ~panicked
    /\ \E do \in DoReturns :
         LET sent == sendSummaryMessageToTeams(cfg.TeamsWebhookUrlSuccess,
                                               cfg.TeamsWebhookUrlFailure,
                                               checkSummary, do)
         IN  /\ posts' = posts \o [k \in 1..Len(sent.requests) |->
                                       [req |-> sent.requests[k], ret |-> do]]
             /\ retErr' = SupSendErr(sent.err)
    /\ pc' = "returned"
    /\ UNCHANGED <<chanLog, build, goos, cfg, env, os, launched, wg, chCap, ch, chClosed,
                   task, panicked, results, checkSummary, stdout>>

mainVars == <<build, goos, cfg, env, pc, os, launched, chCap, results,
              checkSummary, stdout, posts, retErr>>

(* native ping probe: exec.Command("ping", ...).Output() and the branches
   up to the channel write *)
PingProbe(t) ==
    /\ task[t].pc = "probe"
    /\ ~panicked
    /\ ~UseHttp(build, cfg.Flag)
    /\ \E r \in env.pings :
         LET ept == TaskEndpoint(cfg.Endpoints, t)
             writes == checkEndpointPing(ept, cfg.Tries, os, r.err, r.output)
         IN  task' = [task EXCEPT
                 ![t].execs = <<[argv |-> PingArgv(ept, cfg.Tries, os),
                                 err |-> r.err, output |-> r.output]>>,
                 ![t].pending = writes,
                 ![t].pc = IF writes = << >> THEN "exit" ELSE "send"]
    /\ UNCHANGED <<mainVars, chanLog, wg, ch, chClosed, panicked>>

(* mutant: the loop runs once more *)
LoopContinues_OneMore(i, tries) == i <= tries

(* for i := 0; i < tries; i++ *)
LoopContinues(i, tries) == i < tries

(* HTTP probe: one pass of the attempt loop, i < tries *)
HttpAttempt(t) ==
    /\ task[t].pc = "probe"
    /\ ~panicked
    /\ UseHttp(build, cfg.Flag)
    /\ LoopContinues(task[t].i, cfg.Tries)
    /\ \E r \in env.gets :
         task' = [task EXCEPT
             ![t].gets = Append(@, [url |-> "https://" \o TaskEndpoint(cfg.Endpoints, t),
                                    err |-> r.err, StatusCode |-> r.StatusCode]),
             ![t].successfulAttempts = IF AttemptSucceeds(r) THEN @ + 1 ELSE @,
             ![t].i = @ + 1]
    /\ UNCHANGED <<mainVars, chanLog, wg, ch, chClosed, panicked>>

(* HTTP probe: the loop has ended, the branches up to the channel write *)
HttpReport(t) ==
    /\ task[t].pc = "probe"
    /\ ~panicked
    /\ UseHttp(build, cfg.Flag)
    /\ ~LoopContinues(task[t].i, cfg.Tries)
    /\ LET writes == HttpWrites(build, TaskEndpoint(cfg.Endpoints, t), cfg.Tries,
                                task[t].successfulAttempts)
       IN  task' = [task EXCEPT
               ![t].pending = writes,
               ![t].pc = IF writes = << >> THEN "exit" ELSE "send"]
    /\ UNCHANGED <<mainVars, chanLog, wg, ch, chClosed, panicked>>

(* ch <- CheckResult{...}: blocks while the buffer is full, panics on a
   closed channel *)
ChannelSend(t) ==
    /\ task[t].pc = "send"
    /\ ~panicked
    /\ chClosed \/ Len(ch) < chCap
    /\ IF chClosed
       THEN /\ panicked' = TRUE
            /\ UNCHANGED <<ch, chanLog, task>>
       ELSE /\ ch' = Append(ch, Head(task[t].pending))
            /\ chanLog' = Append(chanLog, Head(task[t].pending))
            /\ task' = [task EXCEPT
                   ![t].written = Append(@, Head(task[t].pending)),
                   ![t].pending = Tail(@),
                   ![t].pc = IF Tail(task[t].pending) = << >> THEN "exit" ELSE "send"]
            /\ UNCHANGED panicked
    /\ UNCHANGED <<mainVars, wg, chClosed>>

(* the deferred wg.Done() *)
Done(t) ==
    /\ task[t].pc = "exit"
    /\ ~panicked
    /\ wg' = wg - 1
    /\ task' = [task EXCEPT ![t].pc = "done"]
    /\ UNCHANGED <<mainVars, chanLog, ch, chClosed, panicked>>

Next ==
    \/ SupCheckOS
    \/ MakeChannel
    \/ Launch
    \/ Wait
    \/ Close
    \/ Receive
    \/ SummarizeResults
    \/ PrintSummary
    \/ SendSummary
    \/ \E t \in Tasks : PingProbe(t)
    \/ \E t \in Tasks : HttpAttempt(t)
    \/ \E t \in Tasks : HttpReport(t)
    \/ \E t \in Tasks : ChannelSend(t)
    \/ \E t \in Tasks : Done(t)

Spec == Init /\ [][Next]_vars

SpecProbe == InitProbe /\ [][Next]_vars

(* Scheduling: the main goroutine and every launched goroutine keep being
   scheduled while they can take a step, and every probe call (ping
   command, http.Get) returns. *)
MainStep ==
    \/ SupCheckOS
    \/ MakeChannel
    \/ Launch
    \/ Wait
    \/ Close
    \/ Receive
    \/ SummarizeResults
    \/ PrintSummary
    \/ SendSummary

TaskStep(t) ==
    /\ t \in Tasks
    /\ \/ PingProbe(t)
       \/ HttpAttempt(t)
       \/ HttpReport(t)
       \/ ChannelSend(t)
       \/ Done(t)

Fairness ==
    /\ WF_vars(MainStep)
    /\ \A t \in 1..MaxEndpoints : WF_vars(TaskStep(t))

SpecFair == InitFair /\ [][Next]_vars /\ Fairness


----------------------------------------------------------------------------
(* Vocabulary of the properties *)

SupportedOS == {"darwin", "linux", "windows"}

(* checkEndpoints has returned its slice *)
Drained == pc \in {"print", "send"} \/ (pc = "returned" /\ goos \in SupportedOS)

Numeral(n) == <<"0", "1", "2", "3", "4", "5", "6", "7", "8", "9">>[n + 1]

Occurrences(names, e) == Cardinality({i \in 1..Len(names) : names[i] = e})

ResultEndpoints == [i \in 1..Len(results) |-> results[i].Endpoint]

DownResults == {i \in 1..Len(results) : ~results[i].Up}

AllTasksDone == \A t \in Tasks : task[t].pc = "done" /\ Len(task[t].written) >= 1

HttpSelected == IF build = "https" THEN cfg.Flag ELSE ~cfg.Flag

(* the CheckResult a task has decided on: pending or already written *)
Decided(t) == task[t].pending \o task[t].written

GoodResponse(g) == g.err.isNil /\ g.StatusCode \in {200, 403}

(* the success marker of each platform, for n tries *)
Marker(o, n) ==
    IF o = "linux" THEN Numeral(n) \o " packets transmitted, " \o Numeral(n) \o " received"
    ELSE IF o = "darwin"
    THEN Numeral(n) \o " packets transmitted, " \o Numeral(n) \o " packets received"
    ELSE "    Packets: Sent = " \o Numeral(n) \o ", Received = " \o Numeral(n)

(* the probe of task t did not pass, judged from what its I/O returned *)
ProbeFailed(t) ==
    IF HttpSelected
    THEN \E k \in 1..Len(task[t].gets) : ~GoodResponse(task[t].gets[k])
    ELSE \E k \in 1..Len(task[t].execs) :
            \/ ~task[t].execs[k].err.isNil
            \/ ~Contains(task[t].execs[k].output, Marker(os, cfg.Tries))

FirstNewline(s) ==
    IF \E i \in 1..Len(s) : SubSeq(s, i, i) = "\n"
    THEN CHOOSE i \in 1..Len(s) :
            /\ SubSeq(s, i, i) = "\n"
            /\ \A j \in 1..(i - 1) : SubSeq(s, j, j) # "\n"
    ELSE 0

RECURSIVE LinesOf(_)
LinesOf(s) ==
    IF s = "" THEN << >>
    ELSE LET n == FirstNewline(s)
         IN  IF n = 0 THEN <<s>>
             ELSE <<SubSeq(s, 1, n - 1)>> \o LinesOf(SubSeq(s, n + 1, Len(s)))

EndpointLines(msg) == SelectSeq(LinesOf(msg), LAMBDA l : HasPrefix(l, "Endpoint: "))

----------------------------------------------------------------------------
(* C1: when checkEndpoints has returned, the slice has exactly
   len(endpoints) elements and its Endpoint fields are, as a multiset, the
   input endpoints: nothing dropped, nothing added, whatever the
   interleaving of the goroutines and whatever the probes returned. *)
C1_ResultsMatchEndpoints ==
    Drained =>
        /\ Len(results) = Len(cfg.Endpoints)
        /\ \A e \in EndpointNames :
              Occurrences(ResultEndpoints, e) = Occurrences(cfg.Endpoints, e)

(* two distinct endpoints, collected in the reverse of the input order,
   one up and one down *)
C1_Witness ==
    /\ Drained
    /\ Len(cfg.Endpoints) = 2
    /\ cfg.Endpoints[1] # cfg.Endpoints[2]
    /\ Len(results) = 2
    /\ results[1].Endpoint = cfg.Endpoints[2]
    /\ results[1].Up /\ ~results[2].Up

(* C2: the channel is closed, and the first result read, only after every
   launched task has sent its result and called wg.Done: no task sends on a
   closed channel (no panic) and the returned set is never partial. *)
C2_CloseAfterAllSent ==
    /\ (chClosed \/ Len(results) > 0) => AllTasksDone /\ launched = NumEndpoints
    /\ ~panicked
    /\ Drained => Len(results) = NumEndpoints

C2_Witness ==
    /\ chClosed
    /\ NumEndpoints = 2
    /\ Len(results) = 1
    /\ Len(ch) = 1

(* C3: every task writes exactly one CheckResult on every control path of
   the selected probe, never zero and never two, and a task whose probe
   failed writes Up=false with a non-nil cause. *)
C3_ExactlyOneWrite ==
    \A t \in Tasks :
        /\ Len(task[t].written) + Len(task[t].pending) <= 1
        /\ task[t].pc = "send" => Len(task[t].pending) = 1
        /\ task[t].pc \in {"exit", "done"} => Len(task[t].written) = 1
        /\ task[t].pc \in {"idle", "probe"} => Len(task[t].written) = 0
        /\ (ProbeFailed(t) /\ task[t].pc \in {"send", "exit", "done"}) =>
              /\ ~Decided(t)[1].Up
              /\ ~Decided(t)[1].Err.isNil
        /\ Len(ch) + Len(results) =
              Cardinality({u \in Tasks : Len(task[u].written) = 1})

(* three HTTP attempts of which only the second failed: one result, down,
   with a cause *)
C3_Witness ==
    /\ NumEndpoints = 1
    /\ HttpSelected
    /\ cfg.Tries = 3
    /\ task[1].pc = "done"
    /\ GoodResponse(task[1].gets[1])
    /\ ~GoodResponse(task[1].gets[2])
    /\ GoodResponse(task[1].gets[3])
    /\ Len(task[1].written) = 1
    /\ ~task[1].written[1].Up
    /\ results = task[1].written

(* C4: a failed probe never becomes an error of the run.  Sup returns a
   non-nil error exactly when the OS is unsupported or the webhook delivery
   failed (the request could not be built or sent, or the response was not
   200); on a supported OS the results are complete and the summary is
   computed and printed whichever endpoints are down. *)
C4_ProbeFailureNotPropagated ==
    pc = "returned" =>
        /\ ~retErr.isNil <=>
              \/ goos \notin SupportedOS
              \/ posts = << >>
              \/ ~posts[1].ret.err.isNil
              \/ posts[1].ret.StatusCode # 200
        /\ goos \in SupportedOS =>
              /\ Len(results) = NumEndpoints
              /\ stdout = <<checkSummary.Msg>>
              /\ checkSummary.Msg # ""

(* Sup returned nil although an endpoint is down *)
C4_Witness ==
    /\ pc = "returned"
    /\ retErr.isNil
    /\ DownResults # {}
    /\ ~checkSummary.AllUp

(* C5: AllUp is true iff no collected result is down, and then the message
   begins "All N endpoints are up", N the number of collected results,
   which is the number of configured endpoints. *)
C5_AllUpSummary ==
    Drained =>
        /\ checkSummary.AllUp <=> DownResults = {}
        /\ checkSummary.AllUp =>
              /\ HasPrefix(checkSummary.Msg,
                           "All " \o Numeral(Len(results)) \o " endpoints are up")
              /\ Len(results) = Len(cfg.Endpoints)

C5_Witness ==
    /\ Drained
    /\ Len(results) = 2
    /\ checkSummary.AllUp

(* C6: with k > 0 down results AllUp is false, the message header states
   k, and the message holds exactly k "Endpoint: e | Error: cause" lines,
   one for each down result and none for an up result. *)
C6_DownSummary ==
    (Drained /\ DownResults # {}) =>
        LET k == Cardinality(DownResults)
            lines == EndpointLines(checkSummary.Msg)
            LineFor(r) == "Endpoint: " \o r.Endpoint \o " | Error: " \o r.Err.msg \o " "
        IN  /\ ~checkSummary.AllUp
            /\ HasPrefix(checkSummary.Msg,
                         "**" \o Numeral(k) \o " endpoints are down!**\n")
            /\ Len(lines) = k
            /\ \A i \in DownResults :
                  Cardinality({j \in 1..Len(lines) : lines[j] = LineFor(results[i])})
                  = Cardinality({j \in DownResults :
                                    LineFor(results[j]) = LineFor(results[i])})

(* one endpoint up and one down *)
C6_Witness ==
    /\ Drained
    /\ Len(results) = 2
    /\ Cardinality(DownResults) = 1

(* C7: with an empty endpoint list the run neither blocks nor fails: no
   task, a zero-capacity channel, an empty result set, and a summary with
   AllUp=true that reports a count of 0. *)
C7_EmptyList ==
    NumEndpoints = 0 =>
        /\ ~panicked
        /\ pc # "returned" => ENABLED Next
        /\ pc \notin {"checkOS", "make"} => chCap = 0
        /\ Drained =>
              /\ results = << >>
              /\ checkSummary.AllUp
              /\ HasPrefix(checkSummary.Msg, "All 0 endpoints are up")

C7_Witness ==
    /\ NumEndpoints = 0
    /\ pc = "returned"
    /\ goos \in SupportedOS
    /\ retErr.isNil

(* C8: the HTTP probe reports the endpoint up iff each of the tryCount
   attempts returned without a transport error and with status 200 or 403;
   otherwise the result is down and its cause names the endpoint and the
   attempt count. *)
C8_HttpVerdict ==
    \A t \in Tasks :
        (HttpSelected /\ task[t].pc \in {"send", "exit", "done"}) =>
            LET r == Decided(t)[1]
            IN  /\ Len(task[t].gets) = cfg.Tries
                /\ r.Up <=> \A k \in 1..cfg.Tries : GoodResponse(task[t].gets[k])
                /\ ~r.Up =>
                      /\ Contains(r.Err.msg, cfg.Endpoints[t])
                      /\ Contains(r.Err.msg, Numeral(cfg.Tries) \o " attempts")

(* three attempts, one of them answered 500: down *)
C8_Witness ==
    /\ HttpSelected
    /\ NumEndpoints = 1
    /\ cfg.Tries = 3
    /\ task[1].pc = "done"
    /\ task[1].gets[1].StatusCode = 200
    /\ task[1].gets[2].StatusCode = 500
    /\ task[1].gets[3].StatusCode = 403
    /\ ~task[1].written[1].Up

(* C9: the native ping probe reports the endpoint up iff the command ran
   without error and its output contains the success marker of the current
   OS for the configured tries; the count flag is -n on Windows and -c
   otherwise. *)
C9_PingVerdict ==
    \A t \in Tasks :
        (~HttpSelected /\ task[t].pc \in {"send", "exit", "done"}) =>
            LET r == Decided(t)[1]
                x == task[t].execs[1]
            IN  /\ Len(task[t].execs) = 1
                /\ r.Up <=> (x.err.isNil /\ Contains(x.output, Marker(os, cfg.Tries)))
                /\ x.argv = <<"ping", cfg.Endpoints[t],
                              IF os = "windows" THEN "-n" ELSE "-c",
                              Numeral(cfg.Tries)>>

(* Linux, 3 tries, only 2 of 3 received: down *)
C9_Witness ==
    /\ ~HttpSelected
    /\ NumEndpoints = 1
    /\ os = "linux"
    /\ cfg.Tries = 3
    /\ task[1].pc = "done"
    /\ task[1].execs[1].err.isNil
    /\ Contains(task[1].execs[1].output, "3 packets transmitted, 2 received")
    /\ ~task[1].written[1].Up

(* C10, as claimed: each run that reaches notification issues exactly one
   POST, to the success URL with the success colour and title iff AllUp,
   to the failure URL with the failure colour and title otherwise, with
   the summary message as the card's text. *)
PostRouted(p) ==
    /\ p.req.method = "POST"
    /\ p.req.body.text = checkSummary.Msg
    /\ IF checkSummary.AllUp
       THEN /\ p.req.url = cfg.TeamsWebhookUrlSuccess
            /\ p.req.body.themeColor = "#0ac404"
            /\ p.req.body.title = "Endpoints Up"
       ELSE /\ p.req.url = cfg.TeamsWebhookUrlFailure
            /\ p.req.body.themeColor = "#e81515"
            /\ p.req.body.title = "ENDPOINTS DOWN"

C10_ExactlyOnePost ==
    (pc = "returned" /\ goos \in SupportedOS) =>
        /\ Len(posts) = 1
        /\ PostRouted(posts[1])

(* C10, amended: a run that reaches notification issues at most one POST
   and never retries; it issues none exactly when the request for the
   selected webhook URL cannot be built (the URL does not parse), and the
   one it issues is routed by AllUp as claimed. *)
SelectedUrl ==
    IF checkSummary.AllUp THEN cfg.TeamsWebhookUrlSuccess
    ELSE cfg.TeamsWebhookUrlFailure

C10_AtMostOnePost ==
    /\ Len(posts) <= 1
    /\ pc # "returned" => posts = << >>
    /\ (pc = "returned" /\ goos \in SupportedOS) =>
          /\ Len(posts) = 1 <=> HasPrefix(SelectedUrl, "https://")
          /\ \A k \in 1..Len(posts) : PostRouted(posts[k])

(* a delivery that failed with a non-200 status was not retried *)
C10_Witness ==
    /\ pc = "returned"
    /\ Len(posts) = 1
    /\ posts[1].ret.StatusCode = 500
    /\ ~checkSummary.AllUp
    /\ posts[1].req.url = cfg.TeamsWebhookUrlFailure

(* C11: on a host OS other than darwin, linux or windows Sup returns the
   unsupported-platform error before any task is launched, any summary is
   printed and any webhook request is issued, with either probe kind. *)
C11_UnsupportedOSStopsAtStartup ==
    goos \notin SupportedOS =>
        /\ pc \in {"checkOS", "returned"}
        /\ launched = 0
        /\ wg = 0
        /\ \A t \in Tasks : task[t] = IdleTask
        /\ ch = << >> /\ results = << >>
        /\ stdout = << >>
        /\ posts = << >>
        /\ pc = "returned" =>
              /\ ~retErr.isNil
              /\ retErr.msg = "untested OS: " \o goos

(* Sup has returned on freebsd, two endpoints configured, HTTP probe *)
C11_Witness ==
    /\ goos = "freebsd"
    /\ pc = "returned"
    /\ NumEndpoints = 2
    /\ HttpSelected
    /\ ~retErr.isNil

Printed(msg) == \E k \in 1..Len(stdout) : stdout[k] = msg

(* C12: on a supported OS the summary message is printed before the
   webhook delivery is attempted, and it stays printed whether the delivery
   succeeds, errors or returns a non-200 status. *)
C12_PrintedBeforeDelivery ==
    /\ pc = "send" => Printed(checkSummary.Msg)
    /\ posts # << >> => Printed(checkSummary.Msg)
    /\ (pc = "returned" /\ goos \in SupportedOS) =>
          /\ Printed(checkSummary.Msg)
          /\ checkSummary.Msg # ""

(* the delivery failed with a transport error; the summary is on stdout *)
C12_Witness ==
    /\ pc = "returned"
    /\ Len(posts) = 1
    /\ ~posts[1].ret.err.isNil
    /\ ~retErr.isNil
    /\ Printed(checkSummary.Msg)
    /\ ~checkSummary.AllUp

(* C13, as claimed: for every endpoint list accepted from configuration,
   no two CheckResults returned by one checkEndpoints run carry the same
   endpoint identifier. *)
C13_NoTwoResultsSameEndpoint ==
    Drained =>
        \A i, j \in 1..Len(results) :
            i # j => results[i].Endpoint # results[j].Endpoint

(* C13, amended: an endpoint identifier is carried by exactly as many
   results as the configured list has entries of it; so no two results
   carry the same identifier when the list names no endpoint twice, and an
   endpoint listed twice is reported twice. *)
C13_OneResultPerListEntry ==
    Drained =>
        /\ \A i \in 1..Len(results) :
              Cardinality({j \in 1..Len(results) :
                              results[j].Endpoint = results[i].Endpoint})
              = Occurrences(cfg.Endpoints, results[i].Endpoint)
        /\ (\A a, b \in 1..NumEndpoints : a # b => cfg.Endpoints[a] # cfg.Endpoints[b])
              => \A i, j \in 1..Len(results) :
                    i # j => results[i].Endpoint # results[j].Endpoint

(* two different endpoints configured, two results with different names *)
C13_Witness ==
    /\ Drained
    /\ cfg.Endpoints = <<"a.test", "b.test">>
    /\ Len(results) = 2
    /\ results[1].Endpoint # results[2].Endpoint

(* C14: no task ever blocks on its channel send: the buffer never holds
   more than len(endpoints) results, and whenever a task is at its send
   there is a free slot in the open channel, although the dispatcher reads
   nothing before the join. *)
C14_SendNeverBlocks ==
    /\ Len(ch) <= Len(cfg.Endpoints)
    /\ pc \in {"launch", "close", "drain"} => chCap = Len(cfg.Endpoints)
    /\ \A t \in Tasks :
          task[t].pc = "send" =>
              /\ ~chClosed
              /\ Len(ch) < chCap
              /\ pc = "launch"
              /\ results = << >>
              /\ ENABLED ChannelSend(t)

(* the second task is at its send while the first result sits unread in
   the buffer *)
C14_Witness ==
    /\ NumEndpoints = 2
    /\ task[2].pc = "send"
    /\ task[1].pc = "done"
    /\ Len(ch) = 1
    /\ results = << >>

(* C15: under fair scheduling, with every probe call returning, every
   checkEndpoints call returns, for every endpoint count and every mix of
   outcomes; and it has no other exit: it never returns while a task has
   not finished. *)
C15_CheckEndpointsReturns ==
    /\ (pc = "make") ~> (pc = "print")
    /\ [](pc \in {"close", "drain", "print", "send"} => AllTasksDone)

(* checkEndpoints has returned two results, one up and one down *)
C15_Witness ==
    /\ pc = "print"
    /\ Len(results) = 2
    /\ Cardinality(DownResults) = 1
    /\ AllTasksDone

(* the summary message names the HTTP probe / the native ping probe *)
NamesHttp(msg) == Contains(msg, "HTTP")

NamesPing(msg) == Contains(msg, "ping") \/ Contains(msg, "Ping")

(* C16: when all endpoints are up, the annotation of the summary message
   names the probe that was used: the HTTP(S) GET method when the HTTP
   probe was selected, the OS ping method when the native ping was. *)
C16_AnnotationNamesProbe ==
    (Drained /\ checkSummary.AllUp /\ Len(results) >= 1) =>
        IF HttpSelected
        THEN NamesHttp(checkSummary.Msg) /\ ~NamesPing(checkSummary.Msg)
        ELSE NamesPing(checkSummary.Msg) /\ ~NamesHttp(checkSummary.Msg)

(* C17: the slice checkEndpoints returns lists the results in the order
   in which the tasks wrote them to the channel: while it is being built it
   is the received prefix of the writes, and once returned it is the whole
   write history.  (That the order can differ from the input order is
   C17_Witness.) *)
C17_ResultsInWriteOrder ==
    /\ results \o ch = chanLog
    /\ Drained => results = chanLog

(* two endpoints, and the returned slice starts with the second one *)
C17_Witness ==
    /\ Drained
    /\ Len(cfg.Endpoints) = 2
    /\ cfg.Endpoints[1] # cfg.Endpoints[2]
    /\ Len(results) = 2
    /\ results[1].Endpoint = cfg.Endpoints[2]
    /\ results[2].Endpoint = cfg.Endpoints[1]

(* the position in results of the j-th down result *)
NthDown(j) ==
    CHOOSE i \in DownResults : Cardinality({k \in DownResults : k <= i}) = j

(* C18: the down-endpoint lines of the failure message are in the order
   in which the down results stand in the slice received from
   checkEndpoints: the j-th line is the line of the j-th down result. *)
C18_DownLinesInReceivedOrder ==
    (Drained /\ DownResults # {}) =>
        LET lines == EndpointLines(checkSummary.Msg)
        IN  /\ Len(lines) = Cardinality(DownResults)
            /\ \A j \in 1..Len(lines) :
                  lines[j] = "Endpoint: " \o results[NthDown(j)].Endpoint
                             \o " | Error: " \o results[NthDown(j)].Err.msg \o " "

(* two down results, received in the reverse of the input (and of the
   alphabetical) order *)
C18_Witness ==
    /\ Drained
    /\ cfg.Endpoints = <<"a.test", "b.test">>
    /\ Len(results) = 2
    /\ DownResults = {1, 2}
    /\ results[1].Endpoint = "b.test"
    /\ results[2].Endpoint = "a.test"
    /\ Len(EndpointLines(checkSummary.Msg)) = 2

(* the GET requests of task t that counted as successful *)
GoodGets(t) == {k \in 1..Len(task[t].gets) : GoodResponse(task[t].gets[k])}

(* C19: the HTTP probe of an endpoint issues its GET requests one after
   another (each step of a task adds at most one request, after the
   requests before it have returned), never more than Tries of them, all
   to "https://" + endpoint; it has issued exactly Tries when it decides,
   whatever the attempts returned; and the success counter is the number
   of successful attempts so far.  The ping probe issues none. *)
C19_SequentialAttempts ==
    /\ [](\A t \in Tasks :
            /\ Len(task[t].gets) <= cfg.Tries
            /\ ~HttpSelected => task[t].gets = << >>
            /\ \A k \in 1..Len(task[t].gets) :
                  task[t].gets[k].url = "https://" \o cfg.Endpoints[t]
            /\ task[t].successfulAttempts = Cardinality(GoodGets(t))
            /\ (HttpSelected /\ task[t].pc \in {"send", "exit", "done"}) =>
                  Len(task[t].gets) = cfg.Tries
            /\ (HttpSelected /\ Len(task[t].gets) < cfg.Tries) =>
                  /\ task[t].pc \in {"idle", "probe"}
                  /\ Decided(t) = << >>)
    /\ [][\A t \in Tasks :
            \/ task'[t].gets = task[t].gets
            \/ /\ Len(task'[t].gets) = Len(task[t].gets) + 1
               /\ SubSeq(task'[t].gets, 1, Len(task[t].gets)) = task[t].gets
               /\ task[t].pc = "probe"]_vars

(* three attempts were made although the first one failed, and the
   counter is two *)
C19_Witness ==
    /\ cfg.Tries = 3
    /\ HttpSelected
    /\ task[1].pc = "done"
    /\ Len(task[1].gets) = 3
    /\ ~GoodResponse(task[1].gets[1])
    /\ GoodResponse(task[1].gets[2])
    /\ GoodResponse(task[1].gets[3])
    /\ task[1].successfulAttempts = 2

(* how fmt's %s verb prints a nil error *)
NilErrorText == "%!s(<nil>)"

(* C20: every CheckResult written to the channel has Up = true exactly
   when its Err is nil, whichever probe wrote it and on whichever path;
   so every down line of the failure message carries a cause, never the
   text of a nil error. *)
C20_UpIffNoError ==
    /\ \A k \in 1..Len(chanLog) :
          /\ chanLog[k].Up <=> chanLog[k].Err.isNil
          /\ ~chanLog[k].Up => chanLog[k].Err.msg # ""
    /\ \A t \in Tasks : \A k \in 1..Len(task[t].written) :
          task[t].written[k].Up <=> task[t].written[k].Err.isNil
    /\ \A k \in 1..Len(results) : results[k].Up <=> results[k].Err.isNil
    /\ (Drained /\ ~checkSummary.AllUp) =>
          LET lines == EndpointLines(checkSummary.Msg)
          IN  /\ lines # << >>
              /\ \A j \in 1..Len(lines) :
                    /\ ~Contains(lines[j], NilErrorText)
                    /\ \E k \in DownResults :
                          /\ results[k].Err.msg # ""
                          /\ Contains(lines[j], " | Error: " \o results[k].Err.msg)

(* the ping command ran without error but its output lacks the success
   marker: the result written is down with a cause, and the failure
   message shows that cause *)
C20_Witness ==
    /\ Drained
    /\ ~HttpSelected
    /\ Len(chanLog) = 1
    /\ task[1].execs # << >>
    /\ task[1].execs[1].err.isNil
    /\ ~chanLog[1].Up
    /\ ~chanLog[1].Err.isNil
    /\ Contains(checkSummary.Msg, " | Error: " \o chanLog[1].Err.msg)

(* C21: with Tries = 0 the HTTP probe makes no request and reports every
   endpoint up (zero successful attempts equal the zero required), so the
   run's summary has AllUp = true whatever http.Get would have returned. *)
C21_ZeroTriesAllUp ==
    (cfg.Tries = 0 /\ HttpSelected) =>
        /\ \A t \in Tasks :
              /\ task[t].gets = << >>
              /\ task[t].successfulAttempts = 0
              /\ \A k \in 1..Len(Decided(t)) :
                    Decided(t)[k].Up /\ Decided(t)[k].Err.isNil
        /\ \A k \in 1..Len(chanLog) : chanLog[k].Up
        /\ Drained =>
              /\ DownResults = {}
              /\ checkSummary.AllUp
              /\ Len(results) = Len(cfg.Endpoints)

(* a finished run with two endpoints, no tries and the HTTP probe, in an
   environment where a GET could fail: both are reported up *)
C21_Witness ==
    /\ pc = "returned"
    /\ cfg.Tries = 0
    /\ HttpSelected
    /\ cfg.Endpoints = <<"a.test", "b.test">>
    /\ \E g \in env.gets : ~GoodResponse(g)
    /\ Len(results) = 2
    /\ results[1].Up /\ results[2].Up
    /\ checkSummary.AllUp


====
